---- MODULE Spec2Model ----
(***************************************************************************)
(* Model of the PECS reconciliation-and-partitioned-export tools.         *)
(*                                                                         *)
(*   pecs_listing_main_processor.py  main(): left merge of a reference    *)
(*       table with a data table on (EAN, secondary), missing-EAN report, *)
(*       one CSV per (state, EAN) group under output_<uuid>/, ZIP of the  *)
(*       directory walk.                                                   *)
(*                                                                         *)
(*   pecs.py  main() / process_csv(): one CSV of listings per (state, EAN) *)
(*       row under the fixed directory processed_data/, ZIP of the walk,  *)
(*       rmtree of the directory.                                          *)
(*                                                                         *)
(*   pecs_hh_verify.py, pecs_hh_verify2.py  process_data(): per row, the   *)
(*       household numbers split into eligible and non-eligible ones.     *)
(*                                                                         *)
(* Cell values are strings, written as sequences of one-character strings *)
(* so that str.replace and str.strip can be computed; Null is pandas' NaN.*)
(***************************************************************************)
EXTENDS Naturals, Integers, Sequences, FiniteSets, TLC

VARIABLES
  \* the file system shared by every run: directories and path -> content
  dirs, files,
  \* pecs_listing_main_processor.py: st.session_state and the finished runs
  ref_df, data_df, runs, runLimit,
  \* pecs.py: one script run per browser session
  sessions, upload, pc, idx, processed_count, error_count, zip_file, error,
  \* pecs_hh_verify.py / pecs_hh_verify2.py: the script run, the uploaded
  \* table, how the run ended, and result_df
  hh_tool, hh_df, hh_status, hh_result

listingVars == <<ref_df, data_df, runs, runLimit>>
csvVars == <<sessions, upload, pc, idx, processed_count, error_count, zip_file, error>>
hhVars == <<hh_tool, hh_df, hh_status, hh_result>>
vars == <<dirs, files, listingVars, csvVars, hhVars>>

\* ------------------------------------------------------------ bounds
MaxRef == 2
MaxData == 2

\* ------------------------------------------------------------ values
Null == <<"<NaN>">>
NanStr == <<"n", "a", "n">>

EanVals == {<<"1">>, <<"2">>}
SecVals == {<<"x">>, <<"y">>}
StateVals == {<<"A">>, Null}
\* a wider alphabet: empty cells, NaN keys, and values that str.replace /
\* str.strip change
EanValsWide == {<<"1">>, Null}
StateValsWide == {<<"A">>, Null, <<>>, <<"_">>, <<"/", " ">>}

RefRows == [ean : EanVals, sec : SecVals, state : StateVals]
\* the data table carries columns besides the two key columns
ValVals == {<<"p">>}
DataRows == [ean : EanVals, sec : SecVals, val : ValVals]
RefRowsWide == [ean : EanValsWide, sec : {<<"x">>}, state : StateValsWide]
DataRowsWide == [ean : EanValsWide, sec : {<<"x">>}, val : ValVals]
\* tables whose data rows differ beyond the key, so that the order of the
\* matches of one reference row shows
RefRowsOrder == [ean : EanVals, sec : {<<"x">>}, state : {<<"A">>}]
DataRowsOrder == [ean : EanVals, sec : {<<"x">>}, val : {<<"p">>, <<"q">>}]
\* tables with a whitespace-only state cell
RefRowsBlank == [ean : EanVals, sec : {<<"x">>}, state : {<<"A">>, <<" ">>}]
DataRowsBlank == [ean : EanVals, sec : {<<"x">>}, val : ValVals]

\* uuid.uuid4() yields a name no earlier run used: the k-th run gets the k-th
UUIDs == <<"u1", "u2">>

SeqsUpTo(S, n) == UNION {[1..k -> S] : k \in 0..n}

\* ------------------------------------------------------- sequence helpers
RECURSIVE Flatten(_)
Flatten(ss) == IF ss = <<>> THEN <<>> ELSE Head(ss) \o Flatten(Tail(ss))

RECURSIVE Perms(_)
Perms(S) ==
  IF S = {} THEN {<<>>}
  ELSE UNION {{<<x>> \o p : p \in Perms(S \ {x})} : x \in S}

Range(s) == {s[i] : i \in DOMAIN s}

\* ------------------------------------------------------------ strings
\* code point order of the characters in use
Ord(c) ==
  CASE c = " " -> 32 [] c = "/" -> 47 [] c = "1" -> 49 [] c = "2" -> 50
    [] c = "A" -> 65 [] c = "B" -> 66 [] c = "_" -> 95 [] c = "a" -> 97
    [] c = "n" -> 110 [] c = "x" -> 120 [] c = "y" -> 121
    [] c = ".csv" -> 46 [] c = "missing_eans.xlsx" -> 109
    [] OTHER -> 200

RECURSIVE StrLess(_, _)
StrLess(a, b) ==
  IF b = <<>> THEN FALSE
  ELSE IF a = <<>> THEN TRUE
  ELSE IF Ord(Head(a)) # Ord(Head(b)) THEN Ord(Head(a)) < Ord(Head(b))
  ELSE StrLess(Tail(a), Tail(b))

\* str(v): NaN prints as 'nan'
Str(v) == IF v = Null THEN NanStr ELSE v

\* s.replace('/', '_')
Replace(s) == [i \in 1..Len(s) |-> IF s[i] = "/" THEN "_" ELSE s[i]]

RECURSIVE LStrip(_)
LStrip(s) == IF s # <<>> /\ Head(s) = " " THEN LStrip(Tail(s)) ELSE s

RECURSIVE RStrip(_)
RStrip(s) ==
  IF s # <<>> /\ s[Len(s)] = " " THEN RStrip(SubSeq(s, 1, Len(s) - 1)) ELSE s

\* s.strip()
Strip(s) == RStrip(LStrip(s))

\* str(v).replace('/', '_').strip()
Sanitize(v) == Strip(Replace(Str(v)))

\* ------------------------------------------------------------ merge
KeyEq(r, d) == r.ean = d.ean /\ r.sec = d.sec

Joined(r, d) ==
  [ean |-> r.ean, sec |-> r.sec, state |-> r.state,
   d_ean |-> d.ean, d_sec |-> d.sec, d_val |-> d.val, merge |-> "both"]

LeftOnly(r) ==
  [ean |-> r.ean, sec |-> r.sec, state |-> r.state,
   d_ean |-> Null, d_sec |-> Null, d_val |-> Null, merge |-> "left_only"]

MatchesOf(r, data) == SelectSeq(data, LAMBDA d : KeyEq(r, d))

BlockOf(r, data) ==
  LET ms == MatchesOf(r, data)
  IN IF ms = <<>> THEN <<LeftOnly(r)>>
     ELSE [j \in 1..Len(ms) |-> Joined(r, ms[j])]

\* a faulty merge: a reference row keeps only its first match
MergeKeepFirst(ref, data) ==
  Flatten([i \in 1..Len(ref) |-> SubSeq(BlockOf(ref[i], data), 1, 1)])

InsertByEan(s, r) ==
  LET k == Cardinality({i \in 1..Len(s) : ~StrLess(r.ean, s[i].ean)})
  IN SubSeq(s, 1, k) \o <<r>> \o SubSeq(s, k + 1, Len(s))

RECURSIVE SortByEan(_)
SortByEan(m) ==
  IF m = <<>> THEN <<>>
  ELSE InsertByEan(SortByEan(SubSeq(m, 1, Len(m) - 1)), m[Len(m)])

\* a faulty merge: the joined rows re-sorted by join key (merge(sort=True))
MergeSortedByKey(ref, data) ==
  SortByEan(Flatten([i \in 1..Len(ref) |-> BlockOf(ref[i], data)]))

\* ref_df.merge(data_df, left_on=[ean, sec], right_on=[ean, sec], how='left',
\*              indicator=True)
Merge(ref, data) == Flatten([i \in 1..Len(ref) |-> BlockOf(ref[i], data)])

\* ------------------------------------------------------------ missing report
RECURSIVE DropDuplicates(_)
DropDuplicates(s) ==
  IF s = <<>> THEN <<>>
  ELSE LET init == DropDuplicates(SubSeq(s, 1, Len(s) - 1))
           last == s[Len(s)]
       IN IF last \in Range(init) THEN init ELSE Append(init, last)

MissingEntry(r) == [missing_ean |-> r.ean, state |-> r.state]

MissingMask(m) == SelectSeq(m, LAMBDA r : r.merge = "left_only")

\* a faulty report: drop_duplicates() left out
MissingReportNoDedup(m) ==
  LET rows == MissingMask(m)
  IN [i \in 1..Len(rows) |-> MissingEntry(rows[i])]

\* merged[missing_mask][[ref_ean, state]].rename(...).drop_duplicates()
MissingReport(m) ==
  LET rows == MissingMask(m)
  IN DropDuplicates([i \in 1..Len(rows) |-> MissingEntry(rows[i])])

\* ------------------------------------------------------------ groupby
PairLess(a, b) ==
  \/ StrLess(a[1], b[1])
  \/ a[1] = b[1] /\ StrLess(a[2], b[2])

RECURSIVE SortPairs(_)
SortPairs(S) ==
  IF S = {} THEN <<>>
  ELSE LET lo == CHOOSE k \in S : \A o \in S \ {k} : PairLess(k, o)
       IN <<lo>> \o SortPairs(S \ {lo})

\* merged.groupby([state, ref_ean]): keys in sorted order, NaN keys dropped
GroupKeys(m) ==
  SortPairs({<<m[i].state, m[i].ean>> : i \in
               {j \in 1..Len(m) : m[j].state # Null /\ m[j].ean # Null}})

GroupRows(m, key) ==
  SelectSeq(m, LAMBDA r : r.state = key[1] /\ r.ean = key[2])

\* group.drop(columns='_merge')
DropMerge(r) ==
  [ean |-> r.ean, sec |-> r.sec, state |-> r.state,
   d_ean |-> r.d_ean, d_sec |-> r.d_sec, d_val |-> r.d_val]

\* ------------------------------------------------------------ output tree
CsvExt == <<".csv">>
ReportName == <<"missing_eans.xlsx">>

BasePath(uuid) == <<"output_", uuid>>

\* os.path.join(base_path, safe_state): an empty component adds no level
StateFolder(base, key) ==
  IF Sanitize(key[1]) = <<>> THEN <<base>> ELSE <<base, Sanitize(key[1])>>

\* os.path.join(state_folder, f"{safe_ean}.csv")
OutputPath(base, key) ==
  Append(StateFolder(base, key), Sanitize(key[2]) \o CsvExt)

ReportOp(m, base) ==
  IF MissingMask(m) = <<>> THEN <<>>
  ELSE <<[path |-> <<base, ReportName>>, dir |-> <<base>>,
          content |-> MissingReport(m)]>>

GroupOp(m, base, key) ==
  [path |-> OutputPath(base, key), dir |-> StateFolder(base, key),
   content |-> LET g == GroupRows(m, key)
               IN [i \in 1..Len(g) |-> DropMerge(g[i])]]

\* the file writes of one run, in program order
WriteOps(m, base) ==
  LET keys == GroupKeys(m)
  IN ReportOp(m, base) \o [i \in 1..Len(keys) |-> GroupOp(m, base, keys[i])]

RECURSIVE ApplyOps(_, _, _)
ApplyOps(fs, ops, k) ==
  IF k = 0 THEN fs
  ELSE (ops[k].path :> ops[k].content) @@ ApplyOps(fs, ops, k - 1)

\* ------------------------------------------------------------ create_zip
Under(fs, base) == {p \in DOMAIN fs : p[1] = base}

\* os.walk(folder_path): the root's files first, then one directory after
\* another; the order inside a listing is whatever os.scandir returns
IsWalk(w) ==
  /\ \A i, j \in 1..Len(w) : (Len(w[i]) = 2 /\ Len(w[j]) = 3) => i < j
  /\ \A i, j, k \in 1..Len(w) :
       (i < j /\ j < k /\ Len(w[i]) = 3 /\ Len(w[k]) = 3 /\ w[i][2] = w[k][2])
         => (Len(w[j]) = 3 /\ w[j][2] = w[i][2])

Walks(fs, base) == {w \in Perms(Under(fs, base)) : IsWalk(w)}

\* arcname = os.path.relpath(file_path, folder_path)
ZipOf(fs, w) == [i \in 1..Len(w) |-> [arcname |-> Tail(w[i]), data |-> fs[w[i]]]]

create_zip(fs, base) == {ZipOf(fs, w) : w \in Walks(fs, base)}

\* ------------------------------------------------------------ main
\* a faulty handler: it works on st.session_state.ref_df itself, not on a
\* copy, and drops the _merge column of the merged frame in place
ProcessInPlace(uuid, failAt) ==
  /\ Len(runs) < runLimit
  /\ failAt = 0
  /\ LET m == Merge(ref_df, data_df)
         base == BasePath(uuid)
         ops == WriteOps(m, base)
         fs == ApplyOps(files, ops, Len(ops))
     IN /\ files' = fs
        /\ dirs' = dirs \cup {<<base>>} \cup {ops[i].dir : i \in 1..Len(ops)}
        /\ ref_df' = [i \in 1..Len(m) |->
                        [ean |-> m[i].ean, sec |-> m[i].sec, state |-> m[i].state]]
        /\ \E z \in create_zip(fs, base) :
             runs' = Append(runs, [base |-> base,
                                   merged |-> [i \in 1..Len(m) |-> DropMerge(m[i])],
                                   status |-> "success", archive |-> z])
  /\ UNCHANGED <<data_df, runLimit, csvVars, hhVars>>

\* The PROCESS FILES handler.  failAt = 0: no I/O error; failAt = k: the
\* k-th file write raises; failAt = Len(ops) + 1: create_zip raises.
Process(uuid, failAt) ==
  /\ Len(runs) < runLimit
  /\ \A i \in 1..Len(runs) : runs[i].base # BasePath(uuid)
  /\ LET m == Merge(ref_df, data_df)
         base == BasePath(uuid)
         ops == WriteOps(m, base)
         done == IF failAt = 0 THEN Len(ops) ELSE failAt - 1
         made == IF failAt = 0 \/ failAt > Len(ops) THEN done ELSE failAt
         fs == ApplyOps(files, ops, done)
     IN /\ failAt \in 0..(Len(ops) + 1)
        /\ files' = fs
        /\ dirs' = dirs \cup {<<base>>} \cup {ops[i].dir : i \in 1..made}
        /\ \E z \in (IF failAt = 0 THEN create_zip(fs, base) ELSE {<<>>}) :
             runs' = Append(runs, [base |-> base, merged |-> m,
                                   status |-> IF failAt = 0 THEN "success"
                                              ELSE "failed",
                                   archive |-> z])
  /\ UNCHANGED <<ref_df, data_df, runLimit, csvVars, hhVars>>

Next == \E failAt \in 0..(MaxRef + 2) : Process(UUIDs[Len(runs) + 1], failAt)

NoHh ==
  /\ hh_tool = "none"
  /\ hh_df = [cols |-> <<>>, rows |-> <<>>]
  /\ hh_status = "idle"
  /\ hh_result = <<>>

NoSessions ==
  /\ sessions = {}
  /\ upload = <<>>
  /\ pc = <<>>
  /\ idx = <<>>
  /\ processed_count = <<>>
  /\ error_count = <<>>
  /\ zip_file = <<>>
  /\ error = <<>>

InitWith(RR, DR, limit) ==
  /\ ref_df \in SeqsUpTo(RR, MaxRef)
  /\ data_df \in SeqsUpTo(DR, MaxData)
  /\ dirs = {}
  /\ files = <<>>
  /\ runs = <<>>
  /\ runLimit = limit
  /\ NoSessions
  /\ NoHh

\* one press of PROCESS FILES on any pair of uploaded tables
Init == InitWith(RefRows, DataRows, 1)

Spec == Init /\ [][Next]_vars

\* the same, on tables over the wider alphabet
InitWide == InitWith(RefRowsWide, DataRowsWide, 1)

SpecWide == InitWide /\ [][Next]_vars

\* two presses of PROCESS FILES on the same uploaded tables
InitRerun == InitWith(RefRows, DataRows, 2)

SpecRerun == InitRerun /\ [][Next]_vars

\* one press on tables whose data rows carry a distinguishing column
InitOrder == InitWith(RefRowsOrder, DataRowsOrder, 1)

SpecOrder == InitOrder /\ [][Next]_vars

\* one press on tables with whitespace-only state cells
InitBlank == InitWith(RefRowsBlank, DataRowsBlank, 1)

SpecBlank == InitBlank /\ [][Next]_vars

\* ============================================================ pecs.py
Lon1 == "location_gps-Longitude_1"
Lon2 == "location_gps-Longitude_2"
Lat1 == "location_gps-Latitude_1"

\* columns matching r'location_gps-Longitude_(\d+)', by suffix, and the
\* latitude column f'location_gps-Latitude_{suffix}' of each
LonNames == <<Lon1, Lon2>>
LatNames == <<Lat1, "location_gps-Latitude_2">>

Schemas ==
  { {"state", "EAN", Lon1, Lon2}, {"state", "EAN", Lon1, Lat1},
    {"EAN", Lon1}, {"state", Lon1}, {Lon1}, {"state", "EAN"},
    {"state", "EAN", "Longitude", "Latitude"} }

Columns == UNION Schemas

CellVals ==
  [c \in Columns |->
     CASE c = "state" -> {<<"A">>, <<" ">>, Null}
       [] c = "EAN" -> {<<"1">>, <<"2">>}
       [] c = Lon1 -> {Null, <<"5">>}
       [] c = Lon2 -> {Null, <<"6">>}
       [] c = "Longitude" -> {Null, <<"5">>}
       [] OTHER -> {<<"9">>}]

\* the uploads of two concurrent sessions: one schema, fewer values
PairSchemas == { {"state", "EAN", Lon1} }

PairVals ==
  [c \in Columns |->
     CASE c = "state" -> {<<"A">>}
       [] c = "EAN" -> {<<"1">>, <<"2">>}
       [] OTHER -> {Null, <<"5">>}]

MaxCsvRows == 2

RowsOver(sch, V) ==
  {r \in [sch -> UNION {V[c] : c \in sch}] : \A c \in sch : r[c] \in V[c]}

CsvFiles(schemas, V) ==
  UNION {{[cols |-> sch, rows |-> rs] :
            rs \in SeqsUpTo(RowsOver(sch, V), MaxCsvRows)} : sch \in schemas}

NoError == [kind |-> "none", names |-> {}]

RequiredColumns == {"state", "EAN"}

\* a faulty check: the message names only the first column missing
CheckRequiredFirstOnly(cols) ==
  IF RequiredColumns \subseteq cols THEN NoError
  ELSE [kind |-> "ValueError",
        names |-> IF "state" \notin cols THEN {"state"} ELSE {"EAN"}]

\* if not all(col in df.columns for col in required_columns): raise
\* ValueError("CSV must contain 'state' and 'EAN' columns")
CheckRequired(cols) ==
  IF RequiredColumns \subseteq cols THEN NoError
  ELSE [kind |-> "ValueError", names |-> {"state", "EAN"}]

\* df[c].astype(str).str.strip(), then the rows with '' in state or EAN go
CleanRow(r) ==
  [c \in DOMAIN r |-> IF c \in RequiredColumns THEN Strip(Str(r[c])) ELSE r[c]]

CleanRows(f) ==
  SelectSeq([i \in 1..Len(f.rows) |-> CleanRow(f.rows[i])],
            LAMBDA r : r["state"] # <<>> /\ r["EAN"] # <<>>)

Suffixes(cols) == {n \in DOMAIN LonNames : LonNames[n] \in cols}

RECURSIVE Ascending(_)
Ascending(S) ==
  IF S = {} THEN <<>>
  ELSE LET lo == CHOOSE n \in S : \A o \in S : n <= o
       IN <<lo>> \o Ascending(S \ {lo})

UsingGeneric(cols) ==
  Suffixes(cols) = {} /\ "Longitude" \in cols /\ "Latitude" \in cols

\* long_columns after long_columns.sort(key=lambda x: x[0]), each with the
\* latitude column looked up for it
LongColumns(cols) ==
  IF Suffixes(cols) # {}
  THEN LET ss == Ascending(Suffixes(cols))
       IN [i \in 1..Len(ss) |->
             [suffix |-> ss[i], col |-> LonNames[ss[i]], lat_col |-> LatNames[ss[i]]]]
  ELSE IF UsingGeneric(cols)
  THEN <<[suffix |-> 1, col |-> "Longitude", lat_col |-> "Latitude"]>>
  ELSE <<>>

CheckLongitude(cols) ==
  IF LongColumns(cols) # <<>> THEN NoError
  ELSE [kind |-> "ValueError", names |-> {Lon1, Lon2, "Latitude", "Longitude"}]

RECURSIVE ListingsSkipNull(_, _)
\* a faulty inner loop: continue at a null longitude where the code breaks
ListingsSkipNull(row, lcs) ==
  IF lcs = <<>> THEN <<>>
  ELSE IF row[Head(lcs).col] = Null THEN ListingsSkipNull(row, Tail(lcs))
  ELSE <<[state |-> row["state"], EAN |-> row["EAN"],
          listing_count |-> row["EAN"] \o <<"_", Head(lcs).suffix>>,
          long |-> row[Head(lcs).col],
          lat |-> IF Head(lcs).lat_col \in DOMAIN row
                  THEN row[Head(lcs).lat_col] ELSE Null]>>
       \o ListingsSkipNull(row, Tail(lcs))

RECURSIVE Listings(_, _)
\* the inner loop: stops at the first null longitude
Listings(row, lcs) ==
  IF lcs = <<>> \/ row[Head(lcs).col] = Null THEN <<>>
  ELSE <<[state |-> row["state"], EAN |-> row["EAN"],
          listing_count |-> row["EAN"] \o <<"_", Head(lcs).suffix>>,
          long |-> row[Head(lcs).col],
          lat |-> IF Head(lcs).lat_col \in DOMAIN row
                  THEN row[Head(lcs).lat_col] ELSE Null]>>
       \o Listings(row, Tail(lcs))

BaseDir == <<"processed_data">>

StateDir(row) == <<BaseDir, row["state"]>>
FilePath(row) == <<BaseDir, row["state"], row["EAN"] \o CsvExt>>

Df(s) == CleanRows(upload[s])
Row(s) == Df(s)[idx[s]]

\* process_csv up to and including os.makedirs(base_dir, exist_ok=True); a
\* ValueError leaves process_csv, main reports it and its finally clause
\* finds no base_dir to remove
Start(s) ==
  /\ s \in sessions
  /\ pc[s] = "idle"
  /\ LET cols == upload[s].cols
         e1 == CheckRequired(cols)
         e2 == IF e1 # NoError THEN e1 ELSE CheckLongitude(cols)
     IN IF e2 # NoError
        THEN /\ error' = [error EXCEPT ![s] = e2]
             /\ pc' = [pc EXCEPT ![s] = "done"]
             /\ UNCHANGED <<dirs, files>>
        ELSE /\ dirs' = dirs \cup {<<BaseDir>>}
             /\ pc' = [pc EXCEPT ![s] = IF Df(s) = <<>> THEN "zip" ELSE "mkdir"]
             /\ UNCHANGED <<error, files>>
  /\ UNCHANGED <<listingVars, hhVars, sessions, upload, idx, processed_count,
                 error_count, zip_file>>

\* os.makedirs(state_dir, exist_ok=True): creates missing parents too
RowMkdir(s) ==
  /\ s \in sessions
  /\ pc[s] = "mkdir"
  /\ dirs' = dirs \cup {<<BaseDir>>, StateDir(Row(s))}
  /\ pc' = [pc EXCEPT ![s] = "write"]
  /\ UNCHANGED <<listingVars, hhVars, files, sessions, upload, idx,
                 processed_count, error_count, zip_file, error>>

\* the rest of the loop body: the listings, EAN_df.to_csv(filepath), the
\* counters; to_csv raises when the directory is gone and the except clause
\* counts the row as an error
RowWrite(s) ==
  /\ s \in sessions
  /\ pc[s] = "write"
  /\ LET ls == Listings(Row(s), LongColumns(upload[s].cols))
     IN IF ls = <<>>
        THEN UNCHANGED <<files, processed_count, error_count>>
        ELSE IF StateDir(Row(s)) \in dirs
        THEN /\ files' = (FilePath(Row(s)) :> ls) @@ files
             /\ processed_count' = [processed_count EXCEPT ![s] = @ + 1]
             /\ UNCHANGED error_count
        ELSE /\ error_count' = [error_count EXCEPT ![s] = @ + 1]
             /\ UNCHANGED <<files, processed_count>>
  /\ idx' = [idx EXCEPT ![s] = @ + 1]
  /\ pc' = [pc EXCEPT ![s] = IF idx[s] < Len(Df(s)) THEN "mkdir" ELSE "zip"]
  /\ UNCHANGED <<listingVars, hhVars, dirs, sessions, upload, zip_file, error>>

\* a faulty except clause: break where the code has continue
RowFaultBreak(s) ==
  /\ s \in sessions
  /\ \/ pc[s] = "mkdir"
     \/ pc[s] = "write" /\ Listings(Row(s), LongColumns(upload[s].cols)) # <<>>
  /\ error_count' = [error_count EXCEPT ![s] = @ + 1]
  /\ idx' = [idx EXCEPT ![s] = @ + 1]
  /\ pc' = [pc EXCEPT ![s] = "zip"]
  /\ UNCHANGED <<listingVars, hhVars, dirs, files, sessions, upload,
                 processed_count, zip_file, error>>

\* an OSError inside the try block: os.makedirs(state_dir) raises, or
\* EAN_df.to_csv(filepath) raises on opening the file (permissions, disk
\* full); the except clause counts the row and continues with the next one
RowFault(s) ==
  /\ s \in sessions
  /\ \/ pc[s] = "mkdir"
     \/ pc[s] = "write" /\ Listings(Row(s), LongColumns(upload[s].cols)) # <<>>
  /\ error_count' = [error_count EXCEPT ![s] = @ + 1]
  /\ idx' = [idx EXCEPT ![s] = @ + 1]
  /\ pc' = [pc EXCEPT ![s] = IF idx[s] < Len(Df(s)) THEN "mkdir" ELSE "zip"]
  /\ UNCHANGED <<listingVars, hhVars, dirs, files, sessions, upload,
                 processed_count, zip_file, error>>

\* create_zip_file(base_dir) after process_csv returned
Zip(s) ==
  /\ s \in sessions
  /\ pc[s] = "zip"
  /\ \E z \in create_zip(files, BaseDir) : zip_file' = [zip_file EXCEPT ![s] = z]
  /\ pc' = [pc EXCEPT ![s] = "cleanup"]
  /\ UNCHANGED <<listingVars, hhVars, dirs, files, sessions, upload, idx,
                 processed_count, error_count, error>>

\* finally: shutil.rmtree(base_dir); its error, if any, is only warned about
Cleanup(s) ==
  /\ s \in sessions
  /\ pc[s] = "cleanup"
  /\ dirs' = {d \in dirs : d[1] # BaseDir}
  /\ files' = [p \in DOMAIN files \ Under(files, BaseDir) |-> files[p]]
  /\ pc' = [pc EXCEPT ![s] = "done"]
  /\ UNCHANGED <<listingVars, hhVars, sessions, upload, idx, processed_count,
                 error_count, zip_file, error>>

NextCsv ==
  \E s \in {1, 2} :
    \/ Start(s)
    \/ RowMkdir(s)
    \/ RowWrite(s)
    \/ Zip(s)
    \/ Cleanup(s)

InitCsvWith(ss, F) ==
  /\ sessions = ss
  /\ upload \in [ss -> F]
  /\ pc = [s \in ss |-> "idle"]
  /\ idx = [s \in ss |-> 1]
  /\ processed_count = [s \in ss |-> 0]
  /\ error_count = [s \in ss |-> 0]
  /\ zip_file = [s \in ss |-> <<>>]
  /\ error = [s \in ss |-> NoError]
  /\ dirs = {}
  /\ files = <<>>
  /\ ref_df = <<>>
  /\ data_df = <<>>
  /\ runs = <<>>
  /\ runLimit = 0
  /\ NoHh

\* one session uploads any CSV
InitCsv == InitCsvWith({1}, CsvFiles(Schemas, CellVals))

SpecCsv == InitCsv /\ [][NextCsv]_vars

\* one session uploads any CSV and the file system may refuse any row's
\* directory or file
NextCsvFaults ==
  \E s \in {1, 2} :
    \/ Start(s)
    \/ RowMkdir(s)
    \/ RowWrite(s)
    \/ RowFault(s)
    \/ Zip(s)
    \/ Cleanup(s)

SpecCsvFaults == InitCsv /\ [][NextCsvFaults]_vars

\* two sessions upload at the same time
InitCsvPair == InitCsvWith({1, 2}, CsvFiles(PairSchemas, PairVals))

SpecCsvPair == InitCsvPair /\ [][NextCsv]_vars

\* ====================================== pecs_hh_verify.py, pecs_hh_verify2.py
MaxHhRows == 2

\* column names; one of the form enfant_6_59_<digits> is the prefix followed
\* by its digits
StateCol == <<"state">>
EanCol == <<"EAN">>
SelCol == <<"selected_household">>
EnfantPrefix == "enfant_6_59_"
Enfant1 == <<EnfantPrefix, "1">>
Enfant2 == <<EnfantPrefix, "2">>

HhSchemas ==
  { <<StateCol, EanCol, SelCol, Enfant1, Enfant2>>,
    <<StateCol, EanCol, SelCol>>,
    <<StateCol, EanCol, Enfant2, Enfant1>>,
    <<EanCol, SelCol, Enfant1>> }

HhColumns == UNION {Range(sch) : sch \in HhSchemas}

HhCellVals ==
  [c \in HhColumns |->
     CASE c = SelCol -> {Null,
                         <<"1", ",", " ", "0", "2">>,
                         <<"2", ",", ",", "x">>,
                         <<"3", ",", "1", ",", "1">>,
                         <<"+", "1", " ", ",">>}
       [] c = Enfant1 -> {<<"y", "e", "s">>, <<" ", "Y", "e", "s", " ">>, Null}
       [] c = Enfant2 -> {<<"1">>, <<"n", "o">>}
       [] c = StateCol -> {<<"A">>}
       [] OTHER -> {<<"1">>}]

RECURSIVE HhRowsOver(_)
\* the rows over the columns sch: one value per column
HhRowsOver(sch) ==
  IF sch = <<>> THEN {<<>>}
  ELSE {(Head(sch) :> v) @@ r : v \in HhCellVals[Head(sch)],
                                r \in HhRowsOver(Tail(sch))}

\* the uploads of up to n rows
HhFiles(n) ==
  UNION {{[cols |-> sch, rows |-> rs] :
            rs \in SeqsUpTo(HhRowsOver(sch), n)} : sch \in HhSchemas}

\* s.lower(), on the letters in use
LowerChar(c) ==
  CASE c = "Y" -> "y" [] c = "E" -> "e" [] c = "S" -> "s" [] c = "A" -> "a"
    [] OTHER -> c

Lower(s) == [i \in 1..Len(s) |-> LowerChar(s[i])]

RECURSIVE Split(_)
\* s.split(',')
Split(s) ==
  IF \A i \in 1..Len(s) : s[i] # "," THEN <<s>>
  ELSE LET k == CHOOSE i \in 1..Len(s) :
                  s[i] = "," /\ \A j \in 1..(i - 1) : s[j] # ","
       IN <<SubSeq(s, 1, k - 1)>> \o Split(SubSeq(s, k + 1, Len(s)))

\* [f.strip() for f in household_numbers.split(',') if f.strip()]
Figures(s) ==
  LET parts == Split(s)
  IN SelectSeq([i \in 1..Len(parts) |-> Strip(parts[i])], LAMBDA f : f # <<>>)

RECURSIVE Join(_)
\* ', '.join(list)
Join(l) ==
  IF l = <<>> THEN <<>>
  ELSE IF Len(l) = 1 THEN l[1]
  ELSE l[1] \o <<",", " ">> \o Join(Tail(l))

Digits == <<"0", "1", "2", "3", "4", "5", "6", "7", "8", "9">>

DigitVal(c) == (CHOOSE i \in 1..10 : Digits[i] = c) - 1

IsDigits(s) == s # <<>> /\ \A i \in 1..Len(s) : s[i] \in Range(Digits)

\* the strings int() accepts, once stripped: an optional sign and digits
IsIntLiteral(f) ==
  IF f # <<>> /\ Head(f) \in {"+", "-"} THEN IsDigits(Tail(f)) ELSE IsDigits(f)

RECURSIVE DigitsVal(_)
DigitsVal(s) ==
  IF s = <<>> THEN 0
  ELSE 10 * DigitsVal(SubSeq(s, 1, Len(s) - 1)) + DigitVal(s[Len(s)])

\* int(f)
IntVal(f) ==
  IF Head(f) = "-" THEN 0 - DigitsVal(Tail(f))
  ELSE IF Head(f) = "+" THEN DigitsVal(Tail(f))
  ELSE DigitsVal(f)

RECURSIVE NatStr(_)
NatStr(n) ==
  IF n < 10 THEN <<Digits[n + 1]>>
  ELSE NatStr(n \div 10) \o <<Digits[(n % 10) + 1]>>

\* str(n)
IntStr(n) == IF n < 0 THEN <<"-">> \o NatStr(0 - n) ELSE NatStr(n)

YesValues == {<<"y", "e", "s">>, <<"1">>}

\* a faulty test: the column name is built from the figure as written, not
\* from str(int(fig))
IsEligibleRaw(df, row, fig) ==
  IF ~IsIntLiteral(fig) THEN FALSE
  ELSE LET column_name == <<EnfantPrefix>> \o fig
       IN IF column_name \in Range(df.cols)
          THEN Lower(Strip(Str(row[column_name]))) \in YesValues
          ELSE FALSE

\* the body of the try block of pecs_hh_verify.py for one figure: TRUE when
\* the figure is appended to eligible, FALSE when to non_eligible (int()
\* raising ValueError included)
IsEligible(df, row, fig) ==
  IF ~IsIntLiteral(fig) THEN FALSE
  ELSE LET num == IntStr(IntVal(fig))
           column_name == <<EnfantPrefix>> \o num
       IN IF column_name \in Range(df.cols)
          THEN Lower(Strip(Str(row[column_name]))) \in YesValues
          ELSE FALSE

\* pecs_hh_verify.py: one result row
ResultRow(df, row, selected_col) ==
  LET figures == Figures(Strip(Str(row[selected_col])))
      eligible == SelectSeq(figures, LAMBDA f : IsEligible(df, row, f))
      non_eligible == SelectSeq(figures, LAMBDA f : ~IsEligible(df, row, f))
  IN [state |-> row[StateCol], EAN |-> row[EanCol],
      total_hh_selected |-> Len(figures),
      eligible |-> Join(eligible), eligibility_count |-> Len(eligible),
      non_eligible |-> Join(non_eligible),
      non_eligibility_count |-> Len(non_eligible)]

\* pecs_hh_verify.py process_data(df, selected_col)
process_data(df, selected_col) ==
  [i \in 1..Len(df.rows) |-> ResultRow(df, df.rows[i], selected_col)]

\* re.fullmatch(r'enfant_6_59_\d+', col)
IsEnfantCol(c) == Head(c) = EnfantPrefix /\ IsDigits(Tail(c))

EnfantCols(df) == SelectSeq(df.cols, IsEnfantCol)

\* pd.notna(value) and str(value).strip() != ''
NotBlank(v) == v # Null /\ Strip(Str(v)) # <<>>

\* pecs_hh_verify2.py: one result row; col.split('_')[-1] is the digits
ResultRow2(df, row) ==
  LET listed == SelectSeq(EnfantCols(df), LAMBDA c : NotBlank(row[c]))
      yes == SelectSeq(listed, LAMBDA c : Lower(Strip(Str(row[c]))) \in YesValues)
      no == SelectSeq(listed, LAMBDA c : Lower(Strip(Str(row[c]))) \notin YesValues)
      eligible == [i \in 1..Len(yes) |-> Tail(yes[i])]
      non_eligible == [i \in 1..Len(no) |-> Tail(no[i])]
  IN [state |-> row[StateCol], EAN |-> row[EanCol],
      total_hh_listed |-> Len(eligible) + Len(non_eligible),
      eligible |-> Join(eligible), eligibility_count |-> Len(eligible),
      non_eligible |-> Join(non_eligible),
      non_eligibility_count |-> Len(non_eligible)]

\* pecs_hh_verify2.py process_data(df)
process_data2(df) == [i \in 1..Len(df.rows) |-> ResultRow2(df, df.rows[i])]

\* pecs_hh_verify.py, the script: both st.stop() checks, then process_data
Verify ==
  /\ hh_tool = "verify"
  /\ hh_status = "idle"
  /\ IF SelCol \notin Range(hh_df.cols)
        \/ StateCol \notin Range(hh_df.cols) \/ EanCol \notin Range(hh_df.cols)
     THEN hh_status' = "stopped" /\ UNCHANGED hh_result
     ELSE hh_status' = "done" /\ hh_result' = process_data(hh_df, SelCol)
  /\ UNCHANGED <<dirs, files, listingVars, csvVars, hh_tool, hh_df>>

\* pecs_hh_verify2.py, the script
Verify2 ==
  /\ hh_tool = "verify2"
  /\ hh_status = "idle"
  /\ IF StateCol \notin Range(hh_df.cols) \/ EanCol \notin Range(hh_df.cols)
        \/ EnfantCols(hh_df) = <<>>
     THEN hh_status' = "stopped" /\ UNCHANGED hh_result
     ELSE hh_status' = "done" /\ hh_result' = process_data2(hh_df)
  /\ UNCHANGED <<dirs, files, listingVars, csvVars, hh_tool, hh_df>>

NextHh == Verify \/ Verify2

\* either script, on any uploaded table
InitHh ==
  /\ hh_tool \in {"verify", "verify2"}
  /\ hh_df \in HhFiles(MaxHhRows)
  /\ hh_status = "idle"
  /\ hh_result = <<>>
  /\ dirs = {}
  /\ files = <<>>
  /\ ref_df = <<>>
  /\ data_df = <<>>
  /\ runs = <<>>
  /\ runLimit = 0
  /\ NoSessions

SpecHh == InitHh /\ [][NextHh]_vars

\* ============================================================ properties
RunIds == 1..Len(runs)
Succeeded == {i \in RunIds : runs[i].status = "success"}

RefIds == 1..Len(ref_df)
DataIds == 1..Len(data_df)
MatchIds(i) == {j \in DataIds : KeyEq(ref_df[i], data_df[j])}

\* the (reference row, data row) pairs a joined row v can stem from; data row
\* 0 stands for "no data row"
SourcesOf(v) ==
  {<<i, j>> \in RefIds \X (0..Len(data_df)) :
     \/ j = 0 /\ MatchIds(i) = {} /\ v = LeftOnly(ref_df[i])
     \/ j \in MatchIds(i) /\ v = Joined(ref_df[i], data_df[j])}

Occurrences(m, v) == {p \in 1..Len(m) : m[p] = v}

ExpectedRows ==
  {LeftOnly(ref_df[i]) : i \in {k \in RefIds : MatchIds(k) = {}}}
    \cup {Joined(ref_df[i], data_df[j]) : i \in RefIds, j \in DataIds}

\* C1: the merge is a left outer join with fan-out.  Every joined row value
\* occurs exactly as often as there are (reference row, matching data row)
\* pairs producing it as a matched row, plus reference rows without any match
\* producing it as an unmatched row with null data-side fields; there are no
\* other rows.
C1_LeftJoinFanOut ==
  \A r \in RunIds :
    LET m == runs[r].merged
    IN /\ \A v \in Range(m) \cup ExpectedRows :
            Cardinality(Occurrences(m, v)) = Cardinality(SourcesOf(v))
       /\ \A p \in 1..Len(m) :
            /\ m[p].merge \in {"both", "left_only"}
            /\ m[p].merge = "left_only" =>
                 (m[p].d_ean = Null /\ m[p].d_sec = Null /\ m[p].d_val = Null)

\* a reference row with two matching data rows (fan-out) next to a reference
\* row without any
C1_Witness ==
  \E r \in RunIds, i, k \in RefIds :
    /\ Cardinality(MatchIds(i)) = 2
    /\ MatchIds(k) = {}
    /\ Cardinality({p \in 1..Len(runs[r].merged) :
                      runs[r].merged[p].merge = "both"}) = 2
    /\ Cardinality({p \in 1..Len(runs[r].merged) :
                      runs[r].merged[p].merge = "left_only"}) = 1

PairsOf(m) == {<<m[p].state, m[p].ean>> : p \in 1..Len(m)}

AllUnmatched(m, key) ==
  \A p \in 1..Len(m) :
    (m[p].state = key[1] /\ m[p].ean = key[2]) => m[p].merge = "left_only"

\* C2: only matched rows are exported.  After a successful run no partition
\* file exists for a (state, EAN) pair all of whose joined rows are unmatched.
C2_OnlyMatchedExported ==
  \A r \in Succeeded :
    \A key \in PairsOf(runs[r].merged) :
      AllUnmatched(runs[r].merged, key)
        => OutputPath(runs[r].base, key) \notin DOMAIN files

PartitionFiles(base) == {p \in Under(files, base) : p # <<base, ReportName>>}

Unassigned == <<"UNASSIGNED">>

\* C3: no matched row is dropped by partitioning.  After a successful run
\* every matched joined row is in some partition file, and one whose state or
\* EAN is null or empty is in the partition UNASSIGNED/UNASSIGNED.
C3_NoMatchedRowDropped ==
  \A r \in Succeeded :
    LET m == runs[r].merged
    IN \A p \in 1..Len(m) :
         m[p].merge = "both" =>
           /\ \E f \in PartitionFiles(runs[r].base) :
                DropMerge(m[p]) \in Range(files[f])
           /\ (m[p].state \in {Null, <<>>} \/ m[p].ean \in {Null, <<>>})
                => /\ <<runs[r].base, Unassigned, Unassigned \o CsvExt>>
                        \in DOMAIN files
                   /\ DropMerge(m[p]) \in
                        Range(files[<<runs[r].base, Unassigned, Unassigned \o CsvExt>>])

ReportOf(base) ==
  IF <<base, ReportName>> \in DOMAIN files THEN files[<<base, ReportName>>]
  ELSE <<>>

\* C4: after a successful run the missing report holds an entry for an
\* (EAN, state) pair exactly if some unmatched joined row carries the pair,
\* and no pair twice.
C4_MissingReportDistinctPairs ==
  \A r \in Succeeded :
    LET m == runs[r].merged
        rep == ReportOf(runs[r].base)
    IN /\ \A p \in 1..Len(m) :
            m[p].merge = "left_only" =>
              \E k \in 1..Len(rep) : rep[k] = MissingEntry(m[p])
       /\ \A k \in 1..Len(rep) :
            \E p \in 1..Len(m) :
              m[p].merge = "left_only" /\ rep[k] = MissingEntry(m[p])
       /\ \A k1, k2 \in 1..Len(rep) : k1 # k2 => rep[k1] # rep[k2]

\* two unmatched reference rows share one (EAN, state) pair and the report
\* holds the pair once
C4_Witness ==
  \E r \in Succeeded : \E p1, p2 \in 1..Len(runs[r].merged) :
    /\ p1 # p2
    /\ runs[r].merged[p1].merge = "left_only"
    /\ runs[r].merged[p2].merge = "left_only"
    /\ MissingEntry(runs[r].merged[p1]) = MissingEntry(runs[r].merged[p2])
    /\ Len(ReportOf(runs[r].base)) = 1

Colliding(m, base) ==
  {kk \in PairsOf(m) \X PairsOf(m) :
     /\ kk[1] # kk[2]
     /\ Null \notin {kk[1][1], kk[1][2], kk[2][1], kk[2][2]}
     /\ OutputPath(base, kk[1]) = OutputPath(base, kk[2])}

\* C5: a run in which two distinct (state, EAN) pairs sanitize to the same
\* path fails, and in no run does a partition file hold anything but the
\* rows of the one pair it was written for.
C5_CollisionReported ==
  \A r \in RunIds :
    /\ Colliding(runs[r].merged, runs[r].base) # {} => runs[r].status = "failed"
    /\ runs[r].status = "success" =>
         \A key \in Range(GroupKeys(runs[r].merged)) :
           files[OutputPath(runs[r].base, key)]
             = GroupOp(runs[r].merged, runs[r].base, key).content

\* C7: a run on a reference table of zero rows fails, leaving no directory,
\* no file and no archive.
C7_EmptyReferenceFails ==
  \A r \in RunIds :
    Len(ref_df) = 0 =>
      /\ runs[r].status = "failed"
      /\ <<runs[r].base>> \notin dirs
      /\ Under(files, runs[r].base) = {}
      /\ runs[r].archive = <<>>

\* C8: once a run has returned, successfully or not, nothing it created is
\* left on disk.
C8_NothingLeftOnDisk ==
  \A r \in RunIds :
    /\ \A d \in dirs : d[1] # runs[r].base
    /\ Under(files, runs[r].base) = {}

RECURSIVE JoinPath(_)
JoinPath(p) ==
  IF Len(p) = 1 THEN p[1] ELSE p[1] \o <<"/">> \o JoinPath(Tail(p))

SortedArchive(z) ==
  \A i, j \in 1..Len(z) :
    i < j => ~StrLess(JoinPath(z[j].arcname), JoinPath(z[i].arcname))

\* C9: two successful runs on the same tables produce the same archive, its
\* entries in sorted path order.
C9_DeterministicArchive ==
  \A r1, r2 \in Succeeded :
    /\ runs[r1].archive = runs[r2].archive
    /\ SortedArchive(runs[r1].archive)

MissingRequired(s) == RequiredColumns \ upload[s].cols

RECURSIVE AloneFiles(_, _, _)
\* the tree process_csv builds from rows 1..k when nothing else touches
\* processed_data
AloneFiles(f, rows, k) ==
  IF k = 0 THEN <<>>
  ELSE LET ls == Listings(rows[k], LongColumns(f.cols))
           before == AloneFiles(f, rows, k - 1)
       IN IF ls = <<>> THEN before ELSE (FilePath(rows[k]) :> ls) @@ before

OwnEntries(s) ==
  LET t == AloneFiles(upload[s], Df(s), Len(Df(s)))
  IN {[arcname |-> Tail(p), data |-> t[p]] : p \in DOMAIN t}

\* C10: runs do not interfere through the file system.  The archive of a run
\* that raised no error holds exactly the files derived from that run's own
\* upload, however the steps of another run interleave with it.
C10_RunsIsolated ==
  \A s \in sessions :
    (pc[s] \in {"cleanup", "done"} /\ error[s] = NoError) =>
      Range(zip_file[s]) = OwnEntries(s)

\* C11: no stage of the handler changes what an earlier stage produced.  A
\* press of PROCESS FILES, whether it ends in success or in failure, leaves
\* the uploaded reference and data tables as they were, leaves the records of
\* earlier runs as they were, and the merged frame it ends with is still the
\* merge of the two tables: the report, the grouping and the file writes did
\* not alter it.
C11_NoStageMutates ==
  [][/\ ref_df' = ref_df
     /\ data_df' = data_df
     /\ Len(runs') = Len(runs) + 1
     /\ SubSeq(runs', 1, Len(runs)) = runs
     /\ runs'[Len(runs')].merged = Merge(ref_df, data_df)]_vars

\* a run on non-empty tables whose merge has both matched and unmatched rows
\* wrote the report and a partition and then failed
C11_Witness ==
  \E r \in RunIds :
    /\ runs[r].status = "failed"
    /\ ref_df # <<>> /\ data_df # <<>>
    /\ \E p, q \in 1..Len(runs[r].merged) :
         runs[r].merged[p].merge = "both" /\ runs[r].merged[q].merge = "left_only"
    /\ Cardinality(Under(files, runs[r].base)) = 2

BlockLen(i) == IF MatchIds(i) = {} THEN 1 ELSE Cardinality(MatchIds(i))

RECURSIVE BlockStart(_)
BlockStart(i) == IF i = 1 THEN 0 ELSE BlockStart(i - 1) + BlockLen(i - 1)

\* the t-th data row, in data table order, matching reference row i
NthMatch(i, t) ==
  CHOOSE j \in MatchIds(i) : Cardinality({k \in MatchIds(i) : k < j}) = t - 1

\* C12: the joined rows come in a stable order.  The rows of reference row i
\* form one block, the blocks follow each other in reference table order, and
\* inside a block the t-th row is joined with the t-th matching data row in
\* data table order; the keys play no part in the order.
C12_StableJoinOrder ==
  \A r \in RunIds :
    LET m == runs[r].merged
    IN /\ Len(m) = BlockStart(Len(ref_df) + 1)
       /\ \A i \in RefIds : \A t \in 1..BlockLen(i) :
            m[BlockStart(i) + t] =
              IF MatchIds(i) = {} THEN LeftOnly(ref_df[i])
              ELSE Joined(ref_df[i], data_df[NthMatch(i, t)])

\* the reference rows come with descending keys, and the first has two
\* matching data rows that differ in their value column
C12_Witness ==
  \E r \in RunIds :
    /\ Len(ref_df) = 2
    /\ StrLess(ref_df[2].ean, ref_df[1].ean)
    /\ MatchIds(1) = {1, 2}
    /\ data_df[1].val # data_df[2].val
    /\ Len(runs[r].merged) = 3
    /\ runs[r].merged[1].d_val = data_df[1].val
    /\ runs[r].merged[3].ean = ref_df[2].ean

EntryKey(e) == <<e.missing_ean, e.state>>

\* C13: the entries of the missing report are sorted by EAN and then by
\* state, whatever the order of the unmatched rows in the reference table.
C13_MissingReportSorted ==
  \A r \in Succeeded :
    LET rep == ReportOf(runs[r].base)
    IN \A i, j \in 1..Len(rep) :
         (i < j /\ rep[i].state # Null /\ rep[j].state # Null)
           => ~PairLess(EntryKey(rep[j]), EntryKey(rep[i]))

\* the non-null (state, EAN) pairs of a merged frame: the keys groupby yields
KeyPairs(m) == {k \in PairsOf(m) : k[1] # Null /\ k[2] # Null}

TwoLevelPath(base, key) ==
  <<base, Sanitize(key[1]), Sanitize(key[2]) \o CsvExt>>

\* C14: after a successful run every (state, EAN) pair has its partition at
\* <sanitized state>/<sanitized EAN>.csv, one named directory below the top
\* of the tree; the partition holds exactly the joined rows carrying that
\* pair, in join order; no two pairs share a partition, and no partition file
\* lies at the top of the tree or deeper than one directory.
C14_PartitionsTwoLevel ==
  \A r \in Succeeded :
    LET m == runs[r].merged
        base == runs[r].base
    IN /\ \A key \in KeyPairs(m) :
            /\ Sanitize(key[1]) # <<>>
            /\ TwoLevelPath(base, key) \in DOMAIN files
            /\ files[TwoLevelPath(base, key)] =
                 [i \in 1..Len(GroupRows(m, key)) |-> DropMerge(GroupRows(m, key)[i])]
       /\ \A k1, k2 \in KeyPairs(m) :
            k1 # k2 => TwoLevelPath(base, k1) # TwoLevelPath(base, k2)
       /\ \A f \in PartitionFiles(base) : Len(f) = 3

Accepted(s) ==
  /\ RequiredColumns \subseteq upload[s].cols
  /\ LongColumns(upload[s].cols) # <<>>

\* the rows among the first k the loop went through that yield listings
WithListings(s, k) ==
  {i \in 1..k : Listings(Df(s)[i], LongColumns(upload[s].cols)) # <<>>}

\* C15: a failure on one row does not end the run.  Every row the loop has
\* gone through is counted as processed, or counted as an error, or was
\* skipped because it has no listings: a row with listings is always one of
\* the first two and only such a row is counted as processed.  The loop goes
\* on to the last row whatever failed before, and processed_count +
\* error_count never exceeds the number of rows.
C15_RowFailureDoesNotAbort ==
  \A s \in sessions :
    IF ~Accepted(s) THEN idx[s] = 1 /\ processed_count[s] + error_count[s] = 0
    ELSE LET n == Len(Df(s))
             done == idx[s] - 1
             k == Cardinality(WithListings(s, done))
         IN /\ done <= n
            /\ processed_count[s] <= k
            /\ k <= processed_count[s] + error_count[s]
            /\ processed_count[s] + error_count[s] <= done
            /\ n <= Len(upload[s].rows)
            /\ pc[s] \in {"zip", "cleanup", "done"} => done = n
            /\ error[s] = NoError

\* the first row failed and was counted as an error, and the second row was
\* still processed and its file written
C15_Witness ==
  \E s \in sessions :
    /\ pc[s] = "zip"
    /\ Len(Df(s)) = 2
    /\ error_count[s] = 1
    /\ processed_count[s] = 1
    /\ FilePath(Df(s)[1]) \notin DOMAIN files
    /\ FilePath(Df(s)[2]) \in DOMAIN files

\* the longitude columns of session s in the order the inner loop takes them
LonCols(s) ==
  LET lcs == LongColumns(upload[s].cols) IN [j \in 1..Len(lcs) |-> lcs[j].col]

\* the number of leading longitude columns of a row holding a value
PrefixLen(s, row) ==
  LET lc == LonCols(s)
  IN Cardinality({k \in 1..Len(lc) : \A j \in 1..k : row[lc[j]] # Null})

\* the rows of session s with a value in the first longitude column
Located(s) == {i \in 1..Len(Df(s)) : Df(s)[i][LonCols(s)[1]] # Null}

LastLocated(s, i) ==
  \A j \in Located(s) : FilePath(Df(s)[j]) = FilePath(Df(s)[i]) => j <= i

\* C16: when process_csv has returned, and before the tree is removed, the
\* files under processed_data are exactly one <state>/<EAN>.csv per
\* (state, EAN) pair having a row with a value in the first longitude column.
\* The file holds the listings of the last such row of the pair, earlier
\* ones being overwritten, while processed_count counts every such row.  The
\* listings of a row are one per longitude column, in ascending suffix order,
\* up to the first column without a value.
C16_LastRowWinsPrefixListings ==
  \A s \in sessions :
    (pc[s] \in {"zip", "cleanup"}) =>
      LET lcs == LongColumns(upload[s].cols)
      IN /\ \A j, k \in 1..Len(lcs) : j < k => lcs[j].suffix < lcs[k].suffix
         /\ Under(files, BaseDir) = {FilePath(Df(s)[i]) : i \in Located(s)}
         /\ processed_count[s] = Cardinality(Located(s))
         /\ \A i \in Located(s) :
              LastLocated(s, i) =>
                LET row == Df(s)[i]
                    ls == files[FilePath(row)]
                IN /\ Len(ls) = PrefixLen(s, row)
                   /\ \A j \in 1..Len(ls) :
                        /\ ls[j].long = row[lcs[j].col]
                        /\ ls[j].listing_count = row["EAN"] \o <<"_", lcs[j].suffix>>
                        /\ ls[j].state = row["state"]
                        /\ ls[j].EAN = row["EAN"]

\* two rows of one (state, EAN) pair, both located; the first has values in
\* both longitude columns, the second a value in the first column only, and
\* the one file holds the single listing of the second row
C16_Witness ==
  \E s \in sessions :
    /\ pc[s] = "zip"
    /\ Len(LonCols(s)) = 2
    /\ Len(Df(s)) = 2
    /\ FilePath(Df(s)[1]) = FilePath(Df(s)[2])
    /\ PrefixLen(s, Df(s)[1]) = 2
    /\ PrefixLen(s, Df(s)[2]) = 1
    /\ processed_count[s] = 2
    /\ Cardinality(Under(files, BaseDir)) = 1
    /\ Len(files[FilePath(Df(s)[2])]) = 1

\* the elements of sequence l at the positions in I, in order
AtPositions(l, I) ==
  LET ks == Ascending(I) IN [j \in 1..Len(ks) |-> l[ks[j]]]

\* figure f of a row counts as eligible: it is the literal of an integer n,
\* the table has a column enfant_6_59_<n>, and the row's value there is
\* 'yes' or '1' once trimmed and lower-cased
CountsAsEligible(row, f) ==
  /\ IsIntLiteral(f)
  /\ \E c \in Range(hh_df.cols) :
       /\ c = <<EnfantPrefix>> \o IntStr(IntVal(f))
       /\ row[c] # Null
       /\ Lower(Strip(row[c])) \in YesValues

\* C17: process_data yields one result row per input row, in input order.
\* In pecs_hh_verify.py the non-empty figures of the row's comma-separated
\* cell are split by position into the eligible list and the non-eligible
\* list, each keeping the order of the figures, so that the two counts add up
\* to 'Total hh_selected count'; a figure is in the eligible list exactly if
\* it counts as eligible.  In pecs_hh_verify2.py the two counts add up to
\* 'total hh_listed' and a household number is in the eligible list only if
\* it counts as eligible.
C17_FiguresPartitioned ==
  hh_status = "done" =>
    /\ Len(hh_result) = Len(hh_df.rows)
    /\ \A i \in 1..Len(hh_result) :
         LET row == hh_df.rows[i]
             res == hh_result[i]
             el == Figures(res.eligible)
             ne == Figures(res.non_eligible)
         IN /\ res.state = row[StateCol] /\ res.EAN = row[EanCol]
            /\ res.eligibility_count = Len(el)
            /\ res.non_eligibility_count = Len(ne)
            /\ IF hh_tool = "verify"
               THEN LET figs == Figures(Str(row[SelCol]))
                        E == {k \in 1..Len(figs) : CountsAsEligible(row, figs[k])}
                    IN /\ res.total_hh_selected = Len(figs)
                       /\ Len(el) + Len(ne) = res.total_hh_selected
                       /\ el = AtPositions(figs, E)
                       /\ ne = AtPositions(figs, (1..Len(figs)) \ E)
               ELSE /\ Len(el) + Len(ne) = res.total_hh_listed
                    /\ \A k \in 1..Len(el) : CountsAsEligible(row, el[k])
                    /\ \A k \in 1..Len(ne) : ~CountsAsEligible(row, ne[k])

\* pecs_hh_verify.py ran on two rows: in the first both figures, one written
\* with a leading zero, are eligible; in the second one figure has a 'no' and
\* the other is not a number
C17_Witness ==
  /\ hh_tool = "verify"
  /\ hh_status = "done"
  /\ Len(hh_result) = 2
  /\ hh_result[1].eligible = <<"1", ",", " ", "0", "2">>
  /\ hh_result[1].eligibility_count = 2
  /\ hh_result[2].non_eligible = <<"2", ",", " ", "x">>
  /\ hh_result[2].total_hh_selected = 2
  /\ hh_result[2].eligibility_count = 0

====
